---- MODULE Spec2Model ----
(***************************************************************************)
(* KnockiClient (src/src/knocki/knocki.py): the websocket supervisor       *)
(* start_websocket, the receive loop _receive_messages, the dispatch of    *)
(* _process_text_message and the listener registry of register_listener.   *)
(*                                                                         *)
(* asyncio runs one coroutine at a time and switches only at an await:     *)
(* a task's pc names the await it is suspended in ("connect", "receive",   *)
(* "await_listener", "sleep") or a point inside a synchronous section      *)
(* ("handle", "dispatch"), during which nothing else runs.                 *)
(***************************************************************************)
EXTENDS Integers, Sequences, FiniteSets, TLC

VARIABLES
    session,        \* self.session: "none", "open" or "closed"
    _close_session, \* self._close_session
    _listeners,     \* self._listeners: per event type, the list of callbacks
    _client,        \* self._client: 0 (None) or an index into conns
    conns,          \* every ClientWebSocketResponse made so far: "open" / "closed"
    pc,             \* per task: where start_websocket stands
    retry_count,    \* per task: the local retry_count of start_websocket
    rcv,            \* per task: the connection whose receive() is awaited
    msg,            \* per task: the local msg of _receive_messages
    event,          \* per task: event.event of _process_text_message
    idx,            \* per task: position of the list iterator of the for loop
    listener,       \* per task: the loop variable listener
    nframes,        \* per task: 1 once this session handled a frame without error, else 0
    hist,           \* log of connection attempts, session ends and sleeps
    regs,           \* log of register_listener calls and of the calls of their handles
    lastUnreg,      \* what the latest call of an unregister function did
    dlog,           \* per task: log of the current or latest dispatch
    env,            \* what the environment may still do (bounds of the model)
    owner,          \* who made self.session: "none", "caller" or "client"
    closeLog,       \* what the latest call of close() found
    loginLog        \* the latest call of login: the response and the outcome

vars == <<session, _close_session, _listeners, _client, conns, pc, retry_count,
          rcv, msg, event, idx, listener, nframes, hist, regs, lastUnreg, dlog, env,
          owner, closeLog, loginLog>>

clientVars == <<session, _close_session, _client, conns>>
loopVars == <<rcv, msg, event, idx, listener, nframes>>
regVars == <<_listeners, regs, lastUnreg>>
auxVars == <<owner, closeLog, loginLog>>

----------------------------------------------------------------------------
\* Bounds of the model.

MaxAttempts == 2
MaxFrames == 2
MaxRegs == 1
MaxUnregCalls == 1
DispatchFrames == 2
DispatchAttempts == 1
DispatchRegs == 3
DispatchUnregCalls == 2
LifeAttempts == 2
LifeFrames == 1
TwoAttempts == 2
TwoFrames == 1
OrderAttempts == 1
OrderFrames == 2
OrderRegs == 2

\* The tasks that may run start_websocket, and the one that does when the
\* caller starts it once.
Tasks == {1, 2}
Main == {1}

----------------------------------------------------------------------------
\* Data.

EventType == {"actionCreated", "actionUpdated", "actionDeleted", "actionTriggered"}

\* The event types the environment registers listeners for.
RegKinds == {"actionTriggered"}

\* Callbacks: their names tell whether they are coroutine functions and
\* whether they raise.
Callbacks == {"sync_ok", "async_ok", "sync_raise", "async_raise"}
IsCoroutine(cb) == cb \in {"async_ok", "async_raise"}
Raises(cb) == cb \in {"sync_raise", "async_raise"}

\* Text payloads: whether the text is JSON, the value of its "event" field
\* and whether the "payload" object with its required fields is there.
Payloads ==
    { [json |-> TRUE, event |-> "actionTriggered", payload |-> TRUE],
      [json |-> TRUE, event |-> "actionUpdated", payload |-> TRUE],
      [json |-> TRUE, event |-> "actionRenamed", payload |-> TRUE],
      [json |-> TRUE, event |-> "actionTriggered", payload |-> FALSE],
      [json |-> FALSE, event |-> "", payload |-> FALSE] }

NoData == [json |-> FALSE, event |-> "", payload |-> FALSE]

\* Event.from_json: the event type, or "DecodeError" when mashumaro raises.
FromJson(data) ==
    IF data.json /\ data.event \in EventType /\ data.payload
    THEN data.event
    ELSE "DecodeError"

CloseTypes == {"CLOSE", "CLOSED", "CLOSING"}
OtherTypes == {"ERROR", "PING", "PONG", "BINARY"}

Messages ==
    [type : CloseTypes \cup OtherTypes, data : {NoData}]
        \cup [type : {"TEXT"}, data : Payloads]

NoMsg == [type |-> "NONE", data |-> NoData]

RECURSIVE Pow2(_)
Pow2(n) == IF n = 0 THEN 1 ELSE 2 * Pow2(n - 1)

----------------------------------------------------------------------------
\* Sequences.

\* list.index: the first position of x in s, 0 when x is not in s.
IndexOf(s, x) ==
    IF \E i \in 1..Len(s) : s[i] = x
    THEN CHOOSE i \in 1..Len(s) : s[i] = x /\ \A j \in 1..(i - 1) : s[j] # x
    ELSE 0

RemoveAt(s, i) == SubSeq(s, 1, i - 1) \o SubSeq(s, i + 1, Len(s))

\* list.remove(x): without the first element equal to x.
ListRemove(s, x) == RemoveAt(s, IndexOf(s, x))

Count(s, x) == Cardinality({i \in 1..Len(s) : s[i] = x})

Last(s) == s[Len(s)]

----------------------------------------------------------------------------
\* The client.

\* The property connected.
connected == _client # 0 /\ conns[_client] = "open"

\* connected, read in the same synchronous section as a change of conns.
connectedIn(cl, cs) == cl # 0 /\ cs[cl] = "open"

\* close() that closes whatever session there is.
SessionAfterCloseAlways == IF session # "none" THEN "closed" ELSE session

\* close(): the session after it.
SessionAfterClose == IF session # "none" /\ _close_session THEN "closed" ELSE session

\* No task is inside a synchronous section: other code can run.
AllYielded == \A t \in Tasks : pc[t] \notin {"handle", "dispatch"}

Ev(t, e, n) == [t |-> t, e |-> e, n |-> n]

\* No close() yet; no login yet.
NoClose == [returned |-> FALSE, conn |-> 0]
NoLogin == [resp |-> "none", result |-> "none"]

NoDispatch == [state |-> "none", kind |-> "", snapshot |-> <<>>, expected |-> <<>>,
               invoked |-> <<>>, mutated |-> FALSE, pending |-> 0, added |-> FALSE,
               removed |-> {}]

\* The callbacks of the registrations of kind k whose handle was never
\* called, in registration order.
RECURSIVE LiveRegs(_, _)
LiveRegs(rs, k) ==
    IF rs = <<>> THEN <<>>
    ELSE LET r == Last(rs)
             rest == LiveRegs(SubSeq(rs, 1, Len(rs) - 1), k)
         IN IF r.kind = k /\ r.calls = 0 THEN Append(rest, r.cb) ELSE rest

----------------------------------------------------------------------------
Init ==
    /\ session \in {"none", "open"}
    /\ _close_session = FALSE
    /\ _listeners = [k \in EventType |-> <<>>]
    /\ _client = 0
    /\ conns = <<>>
    /\ pc = [t \in Tasks |-> "idle"]
    /\ retry_count = [t \in Tasks |-> 0]
    /\ rcv = [t \in Tasks |-> 0]
    /\ msg = [t \in Tasks |-> NoMsg]
    /\ event = [t \in Tasks |-> ""]
    /\ idx = [t \in Tasks |-> 0]
    /\ listener = [t \in Tasks |-> ""]
    /\ nframes = [t \in Tasks |-> 0]
    /\ hist = <<>>
    /\ regs = <<>>
    /\ lastUnreg = [again |-> FALSE, raised |-> FALSE, changed |-> FALSE]
    /\ dlog = [t \in Tasks |-> NoDispatch]
    /\ env = [attempts |-> MaxAttempts, frames |-> MaxFrames, regs |-> MaxRegs,
              unregs |-> MaxUnregCalls]
    /\ owner = IF session = "none" THEN "none" ELSE "caller"
    /\ closeLog = NoClose
    /\ loginLog = NoLogin

----------------------------------------------------------------------------
\* The ends of _receive_messages, as start_websocket goes on after them.
\* isConn is self.connected as the finally clause reads it; n is 1 when the
\* session handled a frame, else 0.

\* "finally: if self.connected: await self.close()".
SessionAfterFinally(isConn) == IF isConn THEN SessionAfterClose ELSE session

\* ExitClean as it would be if a clean end backed off like a failure.
ExitCleanWithBackoff(t, isConn, n) ==
    /\ session' = SessionAfterFinally(isConn)
    /\ hist' = hist \o <<Ev(t, "clean", n), Ev(t, "sleep", Pow2(retry_count[t]))>>
    /\ retry_count' = retry_count
    /\ pc' = [pc EXCEPT ![t] = "sleep"]
    /\ rcv' = [rcv EXCEPT ![t] = 0]
    /\ nframes' = [nframes EXCEPT ![t] = 0]

\* _receive_messages returns: retry_count = 0 and the loop tries to connect.
ExitClean(t, isConn, n) ==
    /\ session' = SessionAfterFinally(isConn)
    /\ hist' = Append(hist, Ev(t, "clean", n))
    /\ retry_count' = [retry_count EXCEPT ![t] = 0]
    /\ pc' = [pc EXCEPT ![t] = "connect"]
    /\ rcv' = [rcv EXCEPT ![t] = 0]
    /\ nframes' = [nframes EXCEPT ![t] = 0]

\* _receive_messages raises KnockiConnectionError: start_websocket catches it
\* and sleeps 2**retry_count.
ExitError(t, isConn, n) ==
    /\ session' = SessionAfterFinally(isConn)
    /\ hist' = hist \o <<Ev(t, "error", n), Ev(t, "sleep", Pow2(retry_count[t]))>>
    /\ retry_count' = retry_count
    /\ pc' = [pc EXCEPT ![t] = "sleep"]
    /\ rcv' = [rcv EXCEPT ![t] = 0]
    /\ nframes' = [nframes EXCEPT ![t] = 0]

\* A frame was handled: "while self.connected" is read again.
LoopCheck(t) ==
    IF connected
    THEN /\ pc' = [pc EXCEPT ![t] = "receive"]
         /\ rcv' = [rcv EXCEPT ![t] = _client]
         /\ nframes' = [nframes EXCEPT ![t] = 1]
         /\ UNCHANGED <<session, hist, retry_count>>
    ELSE ExitClean(t, FALSE, 1)

----------------------------------------------------------------------------
\* start_websocket.

Start(t) ==
    /\ pc[t] = "idle"
    /\ AllYielded
    /\ session' = IF session = "none" THEN "open" ELSE session
    /\ _close_session' = IF session = "none" THEN TRUE ELSE _close_session
    /\ IF connected
       THEN /\ pc' = [pc EXCEPT ![t] = "returned"]
            /\ UNCHANGED retry_count
       ELSE /\ pc' = [pc EXCEPT ![t] = "connect"]
            /\ retry_count' = [retry_count EXCEPT ![t] = 0]
    /\ owner' = IF session = "none" THEN "client" ELSE owner
    /\ UNCHANGED <<_client, conns, loopVars, regVars, hist, dlog, env, closeLog,
                   loginLog>>

\* ws_connect returns a new connection and _receive_messages starts.
ConnectOk(t) ==
    /\ pc[t] = "connect"
    /\ session = "open"
    /\ env.attempts > 0
    /\ conns' = Append(conns, "open")
    /\ _client' = Len(conns) + 1
    /\ hist' = Append(hist, Ev(t, "connect", 0))
    /\ pc' = [pc EXCEPT ![t] = "receive"]
    /\ rcv' = [rcv EXCEPT ![t] = Len(conns) + 1]
    /\ nframes' = [nframes EXCEPT ![t] = 0]
    /\ env' = [env EXCEPT !.attempts = @ - 1]
    /\ UNCHANGED <<session, _close_session, retry_count, msg, event, idx, listener,
                   regVars, dlog, auxVars>>

\* ws_connect raises (a failed handshake, or RuntimeError on a closed
\* session): no KnockiConnectionError, so start_websocket raises it on.
ConnectFail(t) ==
    /\ pc[t] = "connect"
    /\ env.attempts > 0
    /\ hist' = Append(hist, Ev(t, "hs_fail", 0))
    /\ pc' = [pc EXCEPT ![t] = "raised"]
    /\ env' = [env EXCEPT !.attempts = @ - 1]
    /\ UNCHANGED <<clientVars, retry_count, loopVars, regVars, dlog, auxVars>>

\* asyncio.sleep(2**retry_count) is over.
WakeUp(t) ==
    /\ pc[t] = "sleep"
    /\ retry_count' = [retry_count EXCEPT ![t] = @ + 1]
    /\ pc' = [pc EXCEPT ![t] = "connect"]
    /\ UNCHANGED <<clientVars, loopVars, regVars, hist, dlog, env, auxVars>>

----------------------------------------------------------------------------
\* _receive_messages.

\* The closed flag of the connection after receive() returned m: aiohttp
\* closes the connection itself on CLOSE and CLOSED, and may on ERROR.
ClosedAfter(m, c) ==
    IF m.type \in {"CLOSE", "CLOSED"} THEN {"closed"}
    ELSE IF m.type = "ERROR" THEN {"closed", conns[c]}
    ELSE {conns[c]}

\* self._client.receive() returns a message.
Receive(t) ==
    /\ pc[t] = "receive"
    /\ env.frames > 0
    /\ \E m \in Messages : \E st \in ClosedAfter(m, rcv[t]) :
          /\ msg' = [msg EXCEPT ![t] = m]
          /\ conns' = [conns EXCEPT ![rcv[t]] = st]
    /\ pc' = [pc EXCEPT ![t] = "handle"]
    /\ dlog' = [dlog EXCEPT ![t] = NoDispatch]
    /\ env' = [env EXCEPT !.frames = @ - 1]
    /\ UNCHANGED <<session, _close_session, _client, retry_count, rcv, event, idx,
                   listener, nframes, regVars, hist, auxVars>>

\* self._client.receive() raises.
ReceiveRaises(t) ==
    /\ pc[t] = "receive"
    /\ \E st \in {"closed", conns[rcv[t]]} :
          /\ conns' = [conns EXCEPT ![rcv[t]] = st]
          /\ ExitError(t, connectedIn(_client, conns'), nframes[t])
    /\ dlog' = [dlog EXCEPT ![t] = NoDispatch]
    /\ UNCHANGED <<_close_session, _client, msg, event, idx, listener, regVars, env,
                   auxVars>>

\* "match msg.type", up to the next await.
Handle(t) ==
    /\ pc[t] = "handle"
    /\ msg' = [msg EXCEPT ![t] = NoMsg]
    /\ IF msg[t].type \in CloseTypes
       THEN /\ ExitClean(t, connected, 1)
            /\ UNCHANGED <<event, idx, dlog>>
       ELSE IF msg[t].type # "TEXT"
       THEN /\ LoopCheck(t)
            /\ UNCHANGED <<event, idx, dlog>>
       ELSE IF FromJson(msg[t].data) = "DecodeError"
       THEN /\ ExitError(t, connected, nframes[t])
            /\ UNCHANGED <<event, idx, dlog>>
       ELSE /\ event' = [event EXCEPT ![t] = FromJson(msg[t].data)]
            /\ idx' = [idx EXCEPT ![t] = 1]
            /\ dlog' = [dlog EXCEPT ![t] =
                          [state |-> "running", kind |-> FromJson(msg[t].data),
                           snapshot |-> _listeners[FromJson(msg[t].data)],
                           expected |-> LiveRegs(regs, FromJson(msg[t].data)),
                           invoked |-> <<>>, mutated |-> FALSE, pending |-> 0,
                           added |-> FALSE, removed |-> {}]]
            /\ pc' = [pc EXCEPT ![t] = "dispatch"]
            /\ UNCHANGED <<session, hist, retry_count, rcv, nframes>>
    /\ UNCHANGED <<_close_session, _client, conns, listener, regVars, env, auxVars>>

----------------------------------------------------------------------------
\* _process_text_message: "for listener in self._listeners.get(event.event, [])".

\* A listener raised: the exception leaves _process_text_message.
ListenerRaised(t) ==
    /\ ExitError(t, connected, nframes[t])
    /\ dlog' = [dlog EXCEPT ![t].state = "aborted",
                            ![t].invoked = Append(@, listener'[t])]

\* The for loop with the coroutine of an asynchronous listener made a task of
\* its own and not awaited.
InvokeNoAwait(t) ==
    /\ pc[t] = "dispatch"
    /\ IF idx[t] > Len(_listeners[event[t]])
       THEN /\ LoopCheck(t)
            /\ dlog' = [dlog EXCEPT ![t].state = "done"]
            /\ UNCHANGED <<idx, listener>>
       ELSE /\ listener' = [listener EXCEPT ![t] = _listeners[event[t]][idx[t]]]
            /\ idx' = [idx EXCEPT ![t] = @ + 1]
            /\ IF IsCoroutine(listener'[t])
               THEN /\ dlog' = [dlog EXCEPT ![t].invoked = Append(@, listener'[t]),
                                            ![t].pending = @ + 1]
                    /\ UNCHANGED <<session, hist, retry_count, rcv, nframes, pc>>
               ELSE IF Raises(listener'[t])
               THEN ListenerRaised(t)
               ELSE /\ dlog' = [dlog EXCEPT ![t].invoked = Append(@, listener'[t])]
                    /\ UNCHANGED <<session, hist, retry_count, rcv, nframes, pc>>
    /\ UNCHANGED <<_close_session, _client, conns, msg, event, regVars, env, auxVars>>

\* The next round of the for loop: the iterator reads the list as it is now.
Invoke(t) ==
    /\ pc[t] = "dispatch"
    /\ IF idx[t] > Len(_listeners[event[t]])
       THEN /\ LoopCheck(t)
            /\ dlog' = [dlog EXCEPT ![t].state = "done"]
            /\ UNCHANGED <<idx, listener>>
       ELSE /\ listener' = [listener EXCEPT ![t] = _listeners[event[t]][idx[t]]]
            /\ idx' = [idx EXCEPT ![t] = @ + 1]
            /\ IF IsCoroutine(listener'[t])
               THEN /\ pc' = [pc EXCEPT ![t] = "await_listener"]
                    /\ dlog' = [dlog EXCEPT ![t].invoked = Append(@, listener'[t]),
                                            ![t].pending = @ + 1]
                    /\ UNCHANGED <<session, hist, retry_count, rcv, nframes>>
               ELSE IF Raises(listener'[t])
               THEN ListenerRaised(t)
               ELSE /\ dlog' = [dlog EXCEPT ![t].invoked = Append(@, listener'[t])]
                    /\ UNCHANGED <<session, hist, retry_count, rcv, nframes, pc>>
    /\ UNCHANGED <<_close_session, _client, conns, msg, event, regVars, env, auxVars>>

\* "await listener(event)" is over.
Resume(t) ==
    /\ pc[t] = "await_listener"
    /\ IF Raises(listener[t])
       THEN /\ ExitError(t, connected, nframes[t])
            /\ dlog' = [dlog EXCEPT ![t].state = "aborted", ![t].pending = @ - 1]
       ELSE /\ pc' = [pc EXCEPT ![t] = "dispatch"]
            /\ dlog' = [dlog EXCEPT ![t].pending = @ - 1]
            /\ UNCHANGED <<session, hist, retry_count, rcv, nframes>>
    /\ UNCHANGED <<_close_session, _client, conns, msg, event, idx, listener,
                   regVars, env, auxVars>>

----------------------------------------------------------------------------
\* register_listener and the function it returns.

\* A dispatch of kind k that is under way saw the list change.
MarkMutated(k) ==
    [t \in Tasks |->
        IF dlog[t].state = "running" /\ dlog[t].kind = k
        THEN [dlog[t] EXCEPT !.mutated = TRUE]
        ELSE dlog[t]]

\* The same, the change being a registration.
MarkAdded(k) ==
    [t \in Tasks |->
        IF dlog[t].state = "running" /\ dlog[t].kind = k
        THEN [MarkMutated(k)[t] EXCEPT !.added = TRUE]
        ELSE dlog[t]]

\* The same, the change being the removal of cb.
MarkRemoved(k, cb) ==
    [t \in Tasks |->
        IF dlog[t].state = "running" /\ dlog[t].kind = k
        THEN [MarkMutated(k)[t] EXCEPT !.removed = @ \cup {cb}]
        ELSE dlog[t]]

\* register_listener(event_type, listener); its handle is the index in regs.
RegisterListener(event_type, cb) ==
    /\ AllYielded
    /\ env.regs > 0
    /\ _listeners' = [_listeners EXCEPT ![event_type] = Append(@, cb)]
    /\ regs' = Append(regs, [kind |-> event_type, cb |-> cb, calls |-> 0])
    /\ dlog' = MarkAdded(event_type)
    /\ env' = [env EXCEPT !.regs = @ - 1]
    /\ UNCHANGED <<clientVars, pc, retry_count, loopVars, hist, lastUnreg, auxVars>>

\* The lambda of registration h: self._listeners[event_type].remove(listener).
Unregister(h) ==
    /\ AllYielded
    /\ h \in 1..Len(regs)
    /\ env.unregs > 0
    /\ LET k == regs[h].kind
           found == IndexOf(_listeners[k], regs[h].cb) # 0
       IN /\ _listeners' = IF found
                           THEN [_listeners EXCEPT ![k] = ListRemove(@, regs[h].cb)]
                           ELSE _listeners
          /\ lastUnreg' = [again |-> regs[h].calls > 0,
                           raised |-> ~found, changed |-> found]
          /\ dlog' = IF found THEN MarkRemoved(k, regs[h].cb) ELSE dlog
    /\ regs' = [regs EXCEPT ![h].calls = @ + 1]
    /\ env' = [env EXCEPT !.unregs = @ - 1]
    /\ UNCHANGED <<clientVars, pc, retry_count, loopVars, hist, auxVars>>

----------------------------------------------------------------------------
Next ==
    \/ \E t \in Main : Start(t)
    \/ \E t \in Main : ConnectOk(t)
    \/ \E t \in Main : ConnectFail(t)
    \/ \E t \in Main : WakeUp(t)
    \/ \E t \in Main : Receive(t)
    \/ \E t \in Main : ReceiveRaises(t)
    \/ \E t \in Main : Handle(t)
    \/ \E t \in Main : Invoke(t)
    \/ \E t \in Main : Resume(t)
    \/ \E k \in RegKinds, cb \in Callbacks : RegisterListener(k, cb)
    \/ \E h \in 1..Len(regs) : Unregister(h)

Spec == Init /\ [][Next]_vars

\* The same client in an environment that registers more listeners and
\* lets one connection attempt through.
InitDispatch ==
    /\ session \in {"none", "open"}
    /\ _close_session = FALSE
    /\ _listeners = [k \in EventType |-> <<>>]
    /\ _client = 0
    /\ conns = <<>>
    /\ pc = [t \in Tasks |-> "idle"]
    /\ retry_count = [t \in Tasks |-> 0]
    /\ rcv = [t \in Tasks |-> 0]
    /\ msg = [t \in Tasks |-> NoMsg]
    /\ event = [t \in Tasks |-> ""]
    /\ idx = [t \in Tasks |-> 0]
    /\ listener = [t \in Tasks |-> ""]
    /\ nframes = [t \in Tasks |-> 0]
    /\ hist = <<>>
    /\ regs = <<>>
    /\ lastUnreg = [again |-> FALSE, raised |-> FALSE, changed |-> FALSE]
    /\ dlog = [t \in Tasks |-> NoDispatch]
    /\ env = [attempts |-> DispatchAttempts, frames |-> DispatchFrames,
              regs |-> DispatchRegs, unregs |-> DispatchUnregCalls]
    /\ owner = IF session = "none" THEN "none" ELSE "caller"
    /\ closeLog = NoClose
    /\ loginLog = NoLogin

SpecDispatch == InitDispatch /\ [][Next]_vars

----------------------------------------------------------------------------
\* close(), cancellation and login.

\* The transport of connection c is still held: its closed flag is not set
\* and the session it was made through (there is only ever one) was not
\* closed, which closes the connector and every transport of it.
Live(c) == conns[c] = "open" /\ session # "closed"

\* close() or __aexit__, called by the user of the client.
Close ==
    /\ AllYielded
    /\ session' = SessionAfterClose
    /\ closeLog' = [returned |-> closeLog.returned \/ session # "none",
                    conn |-> _client]
    /\ UNCHANGED <<_close_session, _client, conns, pc, retry_count, loopVars, regVars,
                   hist, dlog, env, owner, loginLog>>

\* The task of start_websocket is cancelled while it is suspended:
\* CancelledError is no Exception, so inside _receive_messages only the
\* finally clause runs, and nothing in start_websocket catches it.
Cancel(t) ==
    /\ pc[t] \in {"connect", "sleep", "receive", "await_listener"}
    /\ AllYielded
    /\ session' = IF pc[t] \in {"receive", "await_listener"}
                  THEN SessionAfterFinally(connected)
                  ELSE session
    /\ pc' = [pc EXCEPT ![t] = "cancelled"]
    /\ rcv' = [rcv EXCEPT ![t] = 0]
    /\ UNCHANGED <<_close_session, _client, conns, retry_count, msg, event, idx,
                   listener, nframes, regVars, hist, dlog, env, auxVars>>

\* What the server answers to POST tokens: no answer in time, a transport
\* error, or a response with its status, whether its Content-Type holds
\* application/json, and its body.
Responses ==
    [kind : {"timeout", "transport_error"}, status : {0}, json_ct : {FALSE},
     body : {"none"}]
        \cup [kind : {"response"}, status : {200, 401}, json_ct : BOOLEAN,
              body : {"tokens", "errors", "no_token_fields", "not_json"}]

\* _request and login: what login returns or raises for a response.
LoginResult(resp) ==
    IF resp.kind = "timeout" THEN "KnockiConnectionError"
    ELSE IF resp.kind = "transport_error" THEN "ClientError"
    ELSE IF resp.status # 200 \/ ~resp.json_ct THEN "KnockiConnectionError"
    ELSE IF resp.body = "not_json" THEN "JSONDecodeError"
    ELSE IF resp.body = "errors" THEN "KnockiInvalidAuthError"
    ELSE IF resp.body = "no_token_fields" THEN "KeyError"
    ELSE "TokenResponse"

\* login(email, password): _request makes the session when there is none.
Login(resp) ==
    /\ AllYielded
    /\ session' = IF session = "none" THEN "open" ELSE session
    /\ _close_session' = IF session = "none" THEN TRUE ELSE _close_session
    /\ owner' = IF session = "none" THEN "client" ELSE owner
    /\ loginLog' = [resp |-> resp, result |-> LoginResult(resp)]
    /\ UNCHANGED <<_client, conns, pc, retry_count, loopVars, regVars, hist, dlog, env,
                   closeLog>>

\* A fresh client in an environment with the budget e.
InitEnv(e) ==
    /\ session \in {"none", "open"}
    /\ _close_session = FALSE
    /\ _listeners = [k \in EventType |-> <<>>]
    /\ _client = 0
    /\ conns = <<>>
    /\ pc = [t \in Tasks |-> "idle"]
    /\ retry_count = [t \in Tasks |-> 0]
    /\ rcv = [t \in Tasks |-> 0]
    /\ msg = [t \in Tasks |-> NoMsg]
    /\ event = [t \in Tasks |-> ""]
    /\ idx = [t \in Tasks |-> 0]
    /\ listener = [t \in Tasks |-> ""]
    /\ nframes = [t \in Tasks |-> 0]
    /\ hist = <<>>
    /\ regs = <<>>
    /\ lastUnreg = [again |-> FALSE, raised |-> FALSE, changed |-> FALSE]
    /\ dlog = [t \in Tasks |-> NoDispatch]
    /\ env = e
    /\ owner = IF session = "none" THEN "none" ELSE "caller"
    /\ closeLog = NoClose
    /\ loginLog = NoLogin

\* The client with close(), cancellation and login, and no listeners.
InitLifecycle ==
    InitEnv([attempts |-> LifeAttempts, frames |-> LifeFrames, regs |-> 0,
             unregs |-> 0])

NextLifecycle ==
    \/ \E t \in Main : Start(t)
    \/ \E t \in Main : ConnectOk(t)
    \/ \E t \in Main : ConnectFail(t)
    \/ \E t \in Main : WakeUp(t)
    \/ \E t \in Main : Receive(t)
    \/ \E t \in Main : ReceiveRaises(t)
    \/ \E t \in Main : Handle(t)
    \/ \E t \in Main : Invoke(t)
    \/ \E t \in Main : Cancel(t)
    \/ Close
    \/ \E resp \in Responses : Login(resp)

SpecLifecycle == InitLifecycle /\ [][NextLifecycle]_vars

\* start_websocket called twice, the calls running as two tasks.
InitTwo ==
    InitEnv([attempts |-> TwoAttempts, frames |-> TwoFrames, regs |-> 0,
             unregs |-> 0])

NextTwo ==
    \/ \E t \in Tasks : Start(t)
    \/ \E t \in Tasks : ConnectOk(t)
    \/ \E t \in Tasks : ConnectFail(t)
    \/ \E t \in Tasks : WakeUp(t)
    \/ \E t \in Tasks : Receive(t)
    \/ \E t \in Tasks : ReceiveRaises(t)
    \/ \E t \in Tasks : Handle(t)
    \/ \E t \in Tasks : Invoke(t)

SpecTwo == InitTwo /\ [][NextTwo]_vars

\* One task, frames and listeners that are registered at any time and
\* never unregistered.
InitOrder ==
    InitEnv([attempts |-> OrderAttempts, frames |-> OrderFrames,
             regs |-> OrderRegs, unregs |-> 0])

NextOrder ==
    \/ \E t \in Main : Start(t)
    \/ \E t \in Main : ConnectOk(t)
    \/ \E t \in Main : ConnectFail(t)
    \/ \E t \in Main : WakeUp(t)
    \/ \E t \in Main : Receive(t)
    \/ \E t \in Main : ReceiveRaises(t)
    \/ \E t \in Main : Handle(t)
    \/ \E t \in Main : Invoke(t)
    \/ \E t \in Main : Resume(t)
    \/ \E k \in RegKinds : \E cb \in Callbacks : RegisterListener(k, cb)

SpecOrder == InitOrder /\ [][NextOrder]_vars

----------------------------------------------------------------------------
\* Reading the logs.

\* The events of task t, in order.
TaskHist(t) == SelectSeq(hist, LAMBDA e : e.t = t)

IsFailure(e) == e.e \in {"hs_fail", "error"}
IsAttempt(e) == e.e \in {"connect", "hs_fail"}

\* The failed attempts among h[1..i] since the latest clean end before i.
Streak(h, i) ==
    Cardinality({j \in 1..i :
        /\ IsFailure(h[j])
        /\ \A m \in j..i : h[m].e # "clean"})

\* A dispatch that ended and whose list nobody changed meanwhile.
Settled(d) == d.state \in {"done", "aborted"} /\ ~d.mutated

----------------------------------------------------------------------------
\* C1: a text frame that fails to decode leaves the task in the receive
\* loop on the same open connection: no session end, no backoff, no
\* reconnect.
C1_DecodeFailureKeepsSession ==
    [][\A t \in Tasks :
        (/\ pc[t] = "handle"
         /\ msg[t].type = "TEXT"
         /\ FromJson(msg[t].data) = "DecodeError")
        => (/\ pc'[t] = "receive"
            /\ _client' = _client
            /\ conns' = conns
            /\ session' = session
            /\ hist' = hist)]_vars

\* C2: when a listener raises during a dispatch, every listener after it
\* in the list of that kind is still invoked with the event.
C2_RaisingListenerDoesNotStopDispatch ==
    \A t \in Tasks :
        Settled(dlog[t]) =>
            \A i \in 1..Len(dlog[t].snapshot) : \A j \in (i + 1)..Len(dlog[t].snapshot) :
                (i <= Len(dlog[t].invoked) /\ Raises(dlog[t].snapshot[i]))
                => (/\ j <= Len(dlog[t].invoked)
                    /\ dlog[t].invoked[j] = dlog[t].snapshot[j])

\* C3: the step in which a listener raises keeps the task in the dispatch
\* of the receive loop: the connection stays, no session end is logged and
\* no backoff starts.
C3_ListenerErrorKeepsLoop ==
    [][\A t \in Tasks :
        (\/ /\ pc[t] = "dispatch"
            /\ idx[t] <= Len(_listeners[event[t]])
            /\ Raises(_listeners[event[t]][idx[t]])
            /\ ~IsCoroutine(_listeners[event[t]][idx[t]])
         \/ /\ pc[t] = "await_listener"
            /\ Raises(listener[t]))
        => (/\ pc'[t] \in {"dispatch", "await_listener"}
            /\ _client' = _client
            /\ conns' = conns
            /\ session' = session
            /\ hist' = hist)]_vars

\* C4: once in its retry loop, start_websocket neither returns nor raises
\* to its caller.
C4_SupervisorNeverRaises ==
    \A t \in Tasks :
        /\ pc[t] # "raised"
        /\ pc[t] = "returned" => TaskHist(t) = <<>>

\* C5: the n-th failed attempt in a row is followed, before anything else,
\* by a sleep of 2^(n-1).
C5_BackoffSequence ==
    \A t \in Tasks :
        LET h == TaskHist(t)
        IN \A i \in 1..Len(h) :
              IsFailure(h[i]) =>
                  /\ i < Len(h)
                  /\ h[i + 1].e = "sleep"
                  /\ h[i + 1].n = Pow2(Streak(h, i) - 1)

\* C6: the first sleep after a session that connected and handled at
\* least one frame lasts 2^0, however that session ended.
C6_ResetAfterConnectedSession ==
    \A t \in Tasks :
        LET h == TaskHist(t)
        IN \A i \in 1..Len(h) : \A j \in (i + 1)..Len(h) :
              (/\ h[i].e \in {"clean", "error"}
               /\ h[i].n >= 1
               /\ h[j].e = "sleep"
               /\ \A m \in (i + 1)..(j - 1) : h[m].e # "sleep")
              => h[j].n = 1

C8_InvokedOncePerLiveRegistration ==
    \A t \in Tasks :
        Settled(dlog[t]) =>
            \A cb \in Callbacks :
                Count(dlog[t].invoked, cb) = Count(dlog[t].expected, cb)

\* C9: two callbacks that are each registered once for the kind, A before
\* B, and each invoked once for the event, are invoked A before B.
C9_RegistrationOrder ==
    \A t \in Tasks :
        Settled(dlog[t]) =>
            LET ex == dlog[t].expected
                inv == dlog[t].invoked
            IN \A i \in 1..Len(ex) : \A j \in (i + 1)..Len(ex) :
                  (/\ Count(ex, ex[i]) = 1 /\ Count(ex, ex[j]) = 1
                   /\ Count(inv, ex[i]) = 1 /\ Count(inv, ex[j]) = 1)
                  => IndexOf(inv, ex[i]) < IndexOf(inv, ex[j])

\* C10: a second or later call of an unregister function raises nothing
\* and leaves the registry as it was.
C10_UnregisterIdempotent ==
    lastUnreg.again => (~lastUnreg.raised /\ ~lastUnreg.changed)

\* C11: as long as no unregister function was called twice, the list of
\* every kind holds exactly the callbacks of the registrations whose own
\* unregister function was not called, in registration order.
C11_UnregisterRemovesOwnRegistration ==
    (\A h \in 1..Len(regs) : regs[h].calls <= 1)
    => \A k \in EventType : _listeners[k] = LiveRegs(regs, k)


\* C12: a session passed in by the caller is open in every state, whatever
\* close(), __aexit__ or the cleanup of the receive loop did; a session the
\* client made itself is closed in every state after a close() that found it
\* has returned; and the client closes sessions exactly when it made one.
C12_OnlyOwnSessionClosed ==
    /\ owner = "caller" => session = "open"
    /\ owner = "client" /\ closeLog.returned => session = "closed"
    /\ owner = "none" => session = "none"
    /\ _close_session <=> owner = "client"

\* A caller's session after close() returned with a websocket connection in
\* place and after the cleanup of a receive loop that ended with an error.
C12_Witness ==
    /\ owner = "caller"
    /\ closeLog.returned
    /\ closeLog.conn # 0
    /\ \E i \in 1..Len(hist) : hist[i].e = "error"

\* C13: after close() returned, the websocket connection that was the current
\* one when it was called is closed, so that connected is false for it.
C13_CloseReleasesTransport ==
    closeLog.conn # 0 => conns[closeLog.conn] = "closed"

\* C14: login returns the tokens or raises one of the two error kinds:
\* KnockiInvalidAuthError for a body with errors, KnockiConnectionError for
\* a timeout, a transport failure, a status other than 200, a content type
\* other than JSON or a body without the token fields.
C14_LoginErrorKinds ==
    loginLog.result \in {"none", "TokenResponse", "KnockiInvalidAuthError",
                         "KnockiConnectionError"}

\* C15: whenever no task is inside a session (each one is before its first
\* connection, waiting for the handshake of the next one, in the backoff
\* sleep, ended by an error or cancelled), no websocket connection of the
\* client is still held.
C15_TransportClosedOnEveryExit ==
    (\A t \in Tasks : pc[t] \in {"idle", "connect", "sleep", "raised", "cancelled"})
    => \A c \in 1..Len(conns) : ~Live(c)

\* C16: at most one websocket connection of the client is held at a time.
C16_AtMostOneLiveConnection ==
    Cardinality({c \in 1..Len(conns) : Live(c)}) <= 1

\* C20: a task that is about to call ws_connect does so on a session that
\* is not closed.
C20_NoConnectOnClosedSession ==
    \A t \in Tasks : pc[t] = "connect" => session # "closed"


\* C17: a task that is at receive() for the next frame, or has just read
\* it, has no dispatch under way and no coroutine of a listener that it
\* started and that has not ended.
C17_DispatchEndsBeforeNextFrame ==
    \A t \in Tasks :
        pc[t] \in {"receive", "handle"}
        => dlog[t].pending = 0 /\ dlog[t].state # "running"

\* The dispatch of a frame that awaited an asynchronous listener is over
\* and the task is at receive() for the next frame of the same connection.
C17_Witness ==
    \E t \in Tasks :
        /\ pc[t] = "receive"
        /\ nframes[t] > 0
        /\ dlog[t].state = "done"
        /\ \E i \in 1..Len(dlog[t].invoked) : IsCoroutine(dlog[t].invoked[i])

\* C18: after a dispatch that began with the list of its kind holding the
\* live registrations and during which only unregister functions were
\* called, every callback that was not unregistered meanwhile was invoked
\* as many times as it was in the list when the dispatch began.
C18_UnregisterDuringDispatchIsSafe ==
    \A t \in Tasks :
        (/\ dlog[t].state = "done"
         /\ ~dlog[t].added
         /\ dlog[t].snapshot = dlog[t].expected)
        => \A cb \in Callbacks \ dlog[t].removed :
              Count(dlog[t].invoked, cb) = Count(dlog[t].snapshot, cb)

\* C19: a dispatch during which no unregister function was called makes at
\* most as many invocations as its kind had listeners when it began.
C19_InvocationsBoundedBySnapshot ==
    \A t \in Tasks :
        dlog[t].removed = {} => Len(dlog[t].invoked) <= Len(dlog[t].snapshot)

====
